---- MODULE Spec2Model ----
(***************************************************************************)
(* nosy: the fetch -> classify -> extract -> (copy-out | summarize)        *)
(* pipeline of src/src/main.rs together with the scheme classifier, the    *)
(* content-type classifier, the extractor registry and the backends.       *)
(*                                                                         *)
(* A Rust String / Path is a sequence of one-character strings.            *)
(* Option<T> is a sequence of length at most one: None is << >> and        *)
(* Some(x) is <<x>>.                                                       *)
(***************************************************************************)
EXTENDS Naturals, Sequences, FiniteSets, TLC

\* Longest text a backend extracts in the model.
MaxText == 2
\* Longest summary the LLM returns in the model.
MaxSummary == 1

None == << >>
Some(x) == <<x>>
IsSome(o) == Len(o) = 1
Unwrap(o) == o[1]

(***************************************************************************)
(* Strings                                                                 *)
(***************************************************************************)
UpperChars == <<"A","B","C","D","E","F","G","H","I","J","K","L","M",
                "N","O","P","Q","R","S","T","U","V","W","X","Y","Z">>
LowerChars == <<"a","b","c","d","e","f","g","h","i","j","k","l","m",
                "n","o","p","q","r","s","t","u","v","w","x","y","z">>

\* u8::to_ascii_lowercase on one character
LowerChar(c) ==
    IF \E i \in 1..Len(UpperChars) : UpperChars[i] = c
    THEN LowerChars[CHOOSE i \in 1..Len(UpperChars) : UpperChars[i] = c]
    ELSE c

\* str::to_ascii_lowercase
to_ascii_lowercase(s) == [i \in 1..Len(s) |-> LowerChar(s[i])]

SetMax(S) == CHOOSE m \in S : \A x \in S : x <= m
SetMin(S) == CHOOSE m \in S : \A x \in S : m <= x

\* str::rfind of one character: 0 when absent
LastIndexOf(s, c) ==
    LET I == {i \in 1..Len(s) : s[i] = c}
    IN  IF I = {} THEN 0 ELSE SetMax(I)

\* position of the first "://" in s, 0 when there is none
FindSchemeSep(s) ==
    LET I == {i \in 1..Len(s) : /\ i + 2 <= Len(s)
                                /\ s[i] = ":" /\ s[i+1] = "/" /\ s[i+2] = "/"}
    IN  IF I = {} THEN 0 ELSE SetMin(I)

\* str::rsplit_once("://"): the split at the last occurrence
rsplit_once(s) ==
    LET I == {i \in 1..Len(s) : /\ i + 2 <= Len(s)
                                /\ s[i] = ":" /\ s[i+1] = "/" /\ s[i+2] = "/"}
    IN  IF I = {} THEN None
        ELSE Some(<<SubSeq(s, 1, SetMax(I) - 1), SubSeq(s, SetMax(I) + 3, Len(s))>>)

\* str::split_once("://"): None, or Some(<<left, right>>)
split_once(s) ==
    LET i == FindSchemeSep(s)
    IN  IF i = 0 THEN None
        ELSE Some(<<SubSeq(s, 1, i - 1), SubSeq(s, i + 3, Len(s))>>)

IsSpace(c) == c = " "

\* str::trim: leading and trailing whitespace removed
RECURSIVE TrimStart(_)
TrimStart(s) ==
    IF s # << >> /\ IsSpace(Head(s)) THEN TrimStart(Tail(s)) ELSE s
RECURSIVE TrimEnd(_)
TrimEnd(s) ==
    IF s # << >> /\ IsSpace(s[Len(s)]) THEN TrimEnd(SubSeq(s, 1, Len(s) - 1)) ELSE s
Trim(s) == TrimEnd(TrimStart(s))

\* every text of length at most n over the characters " " and "a"
TextsUpTo(n) == UNION {[1..k -> {" ", "a"}] : k \in 0..n}
Texts == TextsUpTo(MaxText)
Summaries == TextsUpTo(MaxSummary)

(***************************************************************************)
(* scheme.rs                                                               *)
(***************************************************************************)
InputScheme == {"Http", "File", "Unsupported"}

detect(input) ==
    LET sp == split_once(input)
    IN  IF IsSome(sp)
        THEN LET scheme == to_ascii_lowercase(Unwrap(sp)[1])
             IN  IF scheme \in {<<"h","t","t","p">>, <<"h","t","t","p","s">>}
                 THEN "Http"
                 ELSE IF scheme = <<"f","i","l","e">> THEN "File"
                 ELSE "Unsupported"
        ELSE "File"

(***************************************************************************)
(* extractor.rs: kinds and the two lookup tables                           *)
(***************************************************************************)
Kind == {"PlainText", "HtmlNative", "PdfNative", "Pandoc", "Whisper", "Unsupported"}

\* the kinds main.rs 441-444 binds to a backend
RealBackendKinds == {"HtmlNative", "PdfNative", "Pandoc", "Whisper"}

\* the kinds clap accepts for --ext-kind (Unsupported is #[value(skip)])
ForcibleKind == Kind \ {"Unsupported"}

\* the declarative list handed to define_indices!
IndexEntries == <<
    [variant |-> "HtmlNative",
     mime |-> <<"text/html", "application/xhtml+xml">>,
     ext  |-> << <<"h","t","m","l">>, <<"h","t","m">>, <<"x","h","t","m","l">> >>],
    [variant |-> "PdfNative",
     mime |-> <<"application/pdf">>,
     ext  |-> << <<"p","d","f">> >>],
    [variant |-> "PlainText",
     mime |-> <<"text/plain", "text/markdown">>,
     ext  |-> << <<"t","x","t">>, <<"t","e","x","t">>, <<"m","d">> >>],
    [variant |-> "Pandoc",
     mime |-> <<"application/vnd.openxmlformats-officedocument.wordprocessingml.document",
                "application/msword",
                "application/vnd.oasis.opendocument.text",
                "application/rtf", "text/rtf",
                "application/epub+zip",
                "text/latex",
                "application/x-tex", "text/x-tex">>,
     ext  |-> << <<"d","o","c","x">>, <<"d","o","c">>, <<"o","d","t">>, <<"r","t","f">>,
                 <<"e","p","u","b">>, <<"t","e","x">>, <<"l","a","t","e","x">> >>],
    [variant |-> "Whisper",
     mime |-> <<"audio/mpeg", "audio/mp3", "audio/x-mp3",
                "audio/wav", "audio/x-wav",
                "audio/mp4", "video/mp4">>,
     ext  |-> << <<"m","p","3">>, <<"w","a","v">>, <<"m","p","4">>, <<"m","4","a">> >>]
>>

\* HashMap::insert: a later insert of the same key replaces the earlier value
MapInsert(map, k, v) == [x \in (DOMAIN map) \cup {k} |-> IF x = k THEN v ELSE map[x]]

EmptyMap == [x \in {} |-> "Unsupported"]

\* one key for each kind: only the first key of a list is inserted
InsertFirstKey(map, keys, variant) ==
    IF keys = << >> THEN map ELSE MapInsert(map, Head(keys), variant)

RECURSIVE InsertKeys(_, _, _)
InsertKeys(map, keys, variant) ==
    IF keys = << >> THEN map
    ELSE InsertKeys(MapInsert(map, Head(keys), variant), Tail(keys), variant)

RECURSIVE BuildMimeIndex(_, _)
BuildMimeIndex(map, entries) ==
    IF entries = << >> THEN map
    ELSE BuildMimeIndex(InsertKeys(map, Head(entries).mime, Head(entries).variant),
                        Tail(entries))

RECURSIVE BuildExtIndex(_, _)
BuildExtIndex(map, entries) ==
    IF entries = << >> THEN map
    ELSE BuildExtIndex(InsertKeys(map, Head(entries).ext, Head(entries).variant),
                       Tail(entries))

MIME_INDEX == BuildMimeIndex(EmptyMap, IndexEntries)
EXT_INDEX == BuildExtIndex(EmptyMap, IndexEntries)

\* HashMap::get
MapGet(map, k) == IF k \in DOMAIN map THEN Some(map[k]) ELSE None

(***************************************************************************)
(* file_type.rs                                                            *)
(***************************************************************************)
\* 8 * 1024
MIME_SNIFF_BYTES == 8192

\* the whole path taken for the file name
WholePath(p) == p

\* Path::file_name of a path that does not end in a separator
FileName(p) == SubSeq(p, LastIndexOf(p, "/") + 1, Len(p))

\* Path::extension: the part of the file name after its last ".", None when
\* the file name has no "." or only a leading one.
PathExtension(p) ==
    LET f == FileName(p)
        d == LastIndexOf(f, ".")
    IN  IF d <= 1 \/ f = <<".", ".">> THEN None ELSE Some(SubSeq(f, d + 1, Len(f)))

file_extension_lowercase(path) ==
    LET e == PathExtension(path)
    IN  IF IsSome(e) THEN Some(to_ascii_lowercase(Unwrap(e))) ELSE None

match_kind_by_extension(extension) ==
    IF IsSome(extension) /\ IsSome(MapGet(EXT_INDEX, Unwrap(extension)))
    THEN EXT_INDEX[Unwrap(extension)]
    ELSE "Unsupported"

match_kind_by_mime(mime) ==
    IF IsSome(mime) /\ IsSome(MapGet(MIME_INDEX, Unwrap(mime)))
    THEN MIME_INDEX[Unwrap(mime)]
    ELSE "Unsupported"

\* read_to_end without the take
WholeFile(content) == content

\* file.take(MIME_SNIFF_BYTES).read_to_end
Prefix(content) ==
    SubSeq(content, 1, IF Len(content) < MIME_SNIFF_BYTES THEN Len(content)
                       ELSE MIME_SNIFF_BYTES)

\* tree_magic_mini::from_u8: the signature at the start of the bytes decides;
\* bytes without a signature are text/plain unless one of them is NUL ("0")
SniffMime(bytes) ==
    IF bytes = << >> THEN "application/x-zerosize"
    ELSE IF bytes[1] = "%" THEN "application/pdf"
    ELSE IF bytes[1] = "<" THEN "text/html"
    ELSE IF bytes[1] = "{" THEN "application/rtf"
    ELSE IF bytes[1] = "#" THEN "audio/mpeg"
    ELSE IF \E i \in 1..Len(bytes) : bytes[i] = "0" THEN "application/octet-stream"
    ELSE "text/plain"

(***************************************************************************)
(* validate.rs                                                             *)
(***************************************************************************)
\* What WHISPER_MODEL_PATH can hold when it is read: not set, only
\* whitespace, a path that does not exist, a path that is no regular file,
\* or the path of a model file.
WhisperEnv == {"unset", "blank", "no_such_path", "not_a_file", "model_file"}

\* None when the variable names a model file, else Some(error code)
validate_whisper_model_path_from_env(v) ==
    IF v = "unset" THEN Some("missing_env")
    ELSE IF v = "blank" THEN Some("empty_env")
    ELSE IF v \in {"no_such_path", "not_a_file"} THEN Some("invalid_whisper_model_path")
    ELSE None

\* which::which(command): None when found, else Some(error code)
validate_command_executable(onPath) ==
    IF onPath THEN None ELSE Some("command_not_found")

validate_extractor_kind(kind, pandocOnPath, whisperEnv) ==
    IF kind = "Pandoc"
    THEN (IF IsSome(validate_command_executable(pandocOnPath))
          THEN Some("missing_pandoc") ELSE None)
    ELSE IF kind = "Whisper" THEN validate_whisper_model_path_from_env(whisperEnv)
    ELSE None

\* an existing file accepted as the output
validate_file_may_exist(file) == None

\* path.exists()
validate_file_already_exists(file) ==
    IF IsSome(file) THEN Some("exists") ELSE None

(***************************************************************************)
(* main.rs: the arguments and the world of one run                         *)
(***************************************************************************)
Commands == {"Extract", "Summarize", "NoCommand"}
HttpFetchMode == {"Get", "Headless"}

Inputs == {
    <<"a",".","t","x","t">>,
    <<"a",".","H","T","M">>,
    <<"a",".","d","o","c">>,
    <<"a",".","m","p","3">>,
    <<"a",".","x">>,
    <<"a">>,
    <<".","t","x","t">>,
    <<"f","i","l","e",":","/","/","a",".","m","d">>,
    <<"h","t","t","p",":","/","/","a",".","p","d","f">>,
    <<"H","T","T","P","S",":","/","/","a">>,
    <<"f","t","p",":","/","/","a">>
}

\* bytes a file or a response body can hold
RawContents == {
    <<"%","a">>,
    <<"<","a">>,
    <<"{","a">>,
    <<"#">>,
    <<"0">>,
    <<"a"," ">>
}

OutPath == <<"o","u","t">>
\* std::env::temp_dir()/nosy/<uuid>
TempDir == <<"/","t","/","n","/","u">>
FETCHED_CONTENT_FILENAME == <<"r","a","w">>
EXTRACTED_CONTENT_FILENAME == <<"e","x","t">>

\* the name appended to the directory as text, without a separator
PathConcat(dir, name) == dir \o name

\* Path::join
PathJoin(dir, name) == dir \o <<"/">> \o name

VARIABLES
    args,                   \* the parsed command line
    localFile,              \* content of the file at the input path, if any
    outFile,                \* content of the file at the output path, if any
    pc,                     \* where main is
    scheme,                 \* Option<InputScheme>
    workdirExists,          \* the WorkDir is on disk
    rawFile,                \* content of <workdir>/raw, if any
    raw_content_path,       \* Option<PathBuf>
    extractor_kind,         \* Option<Kind>: the kind main selected
    maybe_file_ext,         \* Option<Extension> handed to extract
    maybe_mime,             \* Option<Mime> handed to extract
    extFile,                \* content of <workdir>/ext, if any
    extracted_content_path, \* Option<PathBuf>
    summary,                \* Option<String>: what summarize returned
    spawned,                \* Option<argv>: the subprocess the run spawned
    err,                    \* Option<error>: the error main returns
    log,                    \* the calls main has made to its collaborators, in order
    cli,                    \* a CliCommand under construction
    cliCalls                \* the builder calls made on it, in order

vars == <<args, localFile, outFile, pc, scheme, workdirExists, rawFile,
          raw_content_path, extractor_kind, maybe_file_ext, maybe_mime, extFile,
          extracted_content_path, summary, spawned, err, log, cli, cliCalls>>

\* #[derive(Default)]: no program, no arguments
CliCommand_default == [program |-> << >>, args |-> << >>]

workdir == IF IsSome(args.workdir) THEN Unwrap(args.workdir) ELSE TempDir
RawPath == PathJoin(workdir, FETCHED_CONTENT_FILENAME)
ExtPath == PathJoin(workdir, EXTRACTED_CONTENT_FILENAME)

\* the file the file system holds at a path
ReadFile(path) ==
    IF path = RawPath THEN rawFile
    ELSE IF path = ExtPath THEN extFile
    ELSE IF path = OutPath THEN outFile
    ELSE IF IsSome(args.input) /\ path = Unwrap(args.input) THEN localFile
    ELSE None

Count(e) == Cardinality({i \in 1..Len(log) : log[i] = e})
Logged(e) == \E i \in 1..Len(log) : log[i] = e

Init ==
    /\ args \in [command : Commands,
                 input : {None} \cup {Some(i) : i \in Inputs},
                 output : {None, Some(OutPath)},
                 workdir : {None, Some(<<"w",".","d">>)},
                 extractor_kind : {None} \cup {Some(k) : k \in ForcibleKind},
                 http_mode : HttpFetchMode]
    /\ localFile \in {None} \cup {Some(c) : c \in RawContents}
    /\ outFile \in {None, Some(<<"a">>)}
    /\ pc = "Parsed"
    /\ scheme = None
    /\ workdirExists = FALSE
    /\ rawFile = None
    /\ raw_content_path = None
    /\ extractor_kind = None
    /\ maybe_file_ext = None
    /\ maybe_mime = None
    /\ extFile = None
    /\ extracted_content_path = None
    /\ summary = None
    /\ spawned = None
    /\ err = None
    /\ log = << >>
    /\ cli = CliCommand_default
    /\ cliCalls = << >>

\* the values an input of a step ranges over: S when the step reads it,
\* a single value when it does not
ReadWhen(cond, S, unread) == IF cond THEN S ELSE {unread}

\* fs::create_dir: fails on a directory that is already there
create_dir(exists, canCreate) == ~exists /\ canCreate

\* tokio::fs::create_dir_all: succeeds on a directory that is already there
create_dir_all(exists, canCreate) == exists \/ canCreate

\* `?` on an Err: main returns the error, nothing after it runs
\* a failure that is recorded while main carries on
FailWithAndContinue(stage, msg, detail) ==
    /\ pc' = pc
    /\ err' = Some([stage |-> stage, msg |-> msg, detail |-> detail])

FailWith(stage, msg, detail) ==
    /\ pc' = "Failed"
    /\ err' = Some([stage |-> stage, msg |-> msg, detail |-> detail])

\* the error swallowed and the stage left to be entered again
Retry(stage, msg) ==
    /\ pc' = pc
    /\ err' = err

Fail(stage, msg) == FailWith(stage, msg, << >>)

\* Cli::command().error(kind, ..).exit(): the process ends before the pipeline
Reject(kind, code) ==
    /\ pc' = "Rejected"
    /\ err' = Some([stage |-> "validate", msg |-> kind, detail |-> <<code>>])

(***************************************************************************)
(* 0. Validate arguments                                                   *)
(***************************************************************************)
\* ExtractSummarizeArgs::validate: the field errors
ExtractSummarizeArgsErrors ==
    (IF args.input = None THEN {"input"} ELSE {})
    \cup (IF args.output = None THEN {"output"} ELSE {})
    \cup (IF IsSome(args.output) /\ IsSome(validate_file_already_exists(outFile))
          THEN {"output"} ELSE {})

\* ExtractArgs::validate runs validate_extractor_kind on a forced kind;
\* SummarizeArgs::validate has no validated field of its own.
ValidatedKind ==
    IF ExtractSummarizeArgsErrors = {} /\ args.command = "Extract"
    THEN args.extractor_kind ELSE None

CommandArgsError(pandocOnPath, whisperEnv) ==
    IF IsSome(ValidatedKind)
    THEN validate_extractor_kind(Unwrap(ValidatedKind), pandocOnPath, whisperEnv)
    ELSE None

Validate ==
    /\ pc = "Parsed"
    /\ \E pandocOnPath \in ReadWhen(ValidatedKind = Some("Pandoc"), BOOLEAN, TRUE),
          whisperEnv \in ReadWhen(ValidatedKind = Some("Whisper"), WhisperEnv, "unset") :
         IF ExtractSummarizeArgsErrors # {}
         THEN IF args.input = None \/ args.output = None
              THEN Reject("MissingRequiredArgument", "required")
              ELSE Reject("ValueValidation", "exists")
         ELSE IF IsSome(CommandArgsError(pandocOnPath, whisperEnv))
         THEN Reject("ValueValidation", Unwrap(CommandArgsError(pandocOnPath, whisperEnv)))
         ELSE /\ pc' = "Init"
              /\ err' = err
    /\ UNCHANGED <<args, localFile, outFile, scheme, workdirExists, rawFile,
                   raw_content_path, extractor_kind, maybe_file_ext, maybe_mime,
                   extFile, extracted_content_path, summary, spawned, log>>
    /\ UNCHANGED <<cli, cliCalls>>

(***************************************************************************)
(* 1. Detect scheme                                                        *)
(***************************************************************************)
DetectScheme ==
    /\ pc = "Init"
    /\ scheme' = Some(detect(Unwrap(args.input)))
    /\ pc' = "SchemeDetected"
    /\ UNCHANGED <<args, localFile, outFile, workdirExists, rawFile,
                   raw_content_path, extractor_kind, maybe_file_ext, maybe_mime,
                   extFile, extracted_content_path, summary, spawned, err, log>>
    /\ UNCHANGED <<cli, cliCalls>>

(***************************************************************************)
(* Results: anyhow::Result<T> of a collaborator, with the calls it made    *)
(***************************************************************************)
Ok(val, events) == [ok |-> TRUE, val |-> val, msg |-> "", events |-> events]
Err(msg, events) == [ok |-> FALSE, val |-> << >>, msg |-> msg, events |-> events]

(***************************************************************************)
(* fetcher/http.rs                                                         *)
(***************************************************************************)
\* what the network answers: no answer, or a status and a body
HttpReplies ==
    {[status |-> "transport_error", body |-> << >>]}
    \cup {[status |-> st, body |-> b] : st \in {"200", "404"}, b \in RawContents}

\* the status class of the response that came back, as it shows in the log
StatusEvent(reply) == IF reply.status = "200" THEN "status_2xx" ELSE "status_non_2xx"

fetch_reqwest(reply) ==
    IF reply.status = "transport_error" THEN Err("failed to send GET", <<"GET">>)
    ELSE IF reply.status # "200"
    THEN Err("GET failed with status", <<"GET", StatusEvent(reply)>>)
    ELSE Ok(reply.body, <<"GET", StatusEvent(reply)>>)

\* headless chrome: navigate_to, wait_until_navigated, get_content; the
\* status of the response is not looked at
fetch_headless(reply) ==
    IF reply.status = "transport_error" THEN Err("failed to navigate", <<"headless">>)
    ELSE Ok(reply.body, <<"headless", StatusEvent(reply)>>)

\* HttpFetcher::fetch up to the write of <workdir>/raw
HttpFetcher_fetch(mode, reply) ==
    IF mode = "Headless" THEN fetch_headless(reply) ELSE fetch_reqwest(reply)

(***************************************************************************)
(* 2. Fetch content                                                        *)
(***************************************************************************)
\* fetch creating the WorkDir whatever the scheme
FetchAlwaysCreatesWorkDir(s) == TRUE

\* main.rs fetch: `if scheme != &InputScheme::File { create_dir_all(workdir) }`
FetchCreatesWorkDir(s) == s # "File"

Fetch ==
    /\ pc = "SchemeDetected"
    /\ \E mkdirOk \in ReadWhen(FetchCreatesWorkDir(Unwrap(scheme)), BOOLEAN, TRUE),
          reply \in ReadWhen(Unwrap(scheme) = "Http", HttpReplies,
                             [status |-> "transport_error", body |-> << >>]),
          writeOk \in ReadWhen(Unwrap(scheme) = "Http", BOOLEAN, TRUE) :
         LET s == Unwrap(scheme)
             uri == Unwrap(args.input)
             mk == FetchCreatesWorkDir(s)
             log1 == IF mk THEN Append(log, "create_dir_all") ELSE log
             wd1 == workdirExists \/ mk
         IN  IF mk /\ ~create_dir_all(workdirExists, mkdirOk)
             THEN /\ Fail("fetch", "failed to create workdir")
                  /\ log' = log1
                  /\ UNCHANGED <<workdirExists, rawFile, raw_content_path>>
             ELSE IF s = "File"
             THEN /\ raw_content_path' = Some(uri)
                  /\ pc' = "Fetched"
                  /\ workdirExists' = wd1
                  /\ log' = log1
                  /\ UNCHANGED <<rawFile, err>>
             ELSE IF s = "Http"
             THEN LET r == HttpFetcher_fetch(args.http_mode, reply)
                      log2 == log1 \o <<"fetcher">> \o r.events
                  IN  /\ workdirExists' = wd1
                      /\ IF ~r.ok
                         THEN /\ Fail("fetch", r.msg)
                              /\ log' = log2
                              /\ UNCHANGED <<rawFile, raw_content_path>>
                         ELSE IF ~(writeOk /\ wd1)
                         THEN /\ Fail("fetch", "failed to write fetched content")
                              /\ log' = log2
                              /\ UNCHANGED <<rawFile, raw_content_path>>
                         ELSE /\ rawFile' = Some(r.val)
                              /\ raw_content_path' = Some(RawPath)
                              /\ pc' = "Fetched"
                              /\ log' = Append(log2, "write_raw")
                              /\ err' = err
             ELSE /\ Fail("fetch", "unsupported input scheme")
                  /\ workdirExists' = wd1
                  /\ log' = log1
                  /\ UNCHANGED <<rawFile, raw_content_path>>
    /\ UNCHANGED <<args, localFile, outFile, scheme, extractor_kind, maybe_file_ext,
                   maybe_mime, extFile, extracted_content_path, summary, spawned>>
    /\ UNCHANGED <<cli, cliCalls>>

(***************************************************************************)
(* 3. Detect extractor kind                                                *)
(***************************************************************************)
\* a failed read taken for content of an unknown type
mime_type_or_unknown(file, readOk) ==
    IF IsSome(file) /\ readOk
    THEN Ok(SniffMime(Prefix(Unwrap(file))), <<"read_prefix">>)
    ELSE Ok("application/octet-stream", <<"read_prefix">>)

\* file_type::mime_type: read_prefix, then the sniff
mime_type(file, readOk) ==
    IF IsSome(file) /\ readOk
    THEN Ok(SniffMime(Prefix(Unwrap(file))), <<"read_prefix">>)
    ELSE Err("failed to read file prefix for MIME sniffing", <<"read_prefix">>)

\* a forced kind that is not honoured
IgnoresForcedKind(forced) == FALSE

\* main.rs 281-282: a forced kind is used as it is
UsesForcedKind(forced) == IsSome(forced)

\* the two lookups in the other order
KindByMimeThenExtension(ext, mime) ==
    LET kind == match_kind_by_mime(mime)
    IN  IF kind # "Unsupported" THEN kind ELSE match_kind_by_extension(ext)

\* main.rs 290-298: the extension match, else the MIME match
KindByExtensionThenMime(ext, mime) ==
    LET kind == match_kind_by_extension(ext)
    IN  IF kind # "Unsupported" THEN kind ELSE match_kind_by_mime(mime)

\* the lookups main.rs 290-298 makes
LookupEvents(ext) ==
    IF match_kind_by_extension(ext) # "Unsupported"
    THEN <<"ext_lookup">> ELSE <<"ext_lookup", "mime_lookup">>

Classify ==
    /\ pc = "Fetched"
    /\ \E readOk \in ReadWhen(~UsesForcedKind(args.extractor_kind), BOOLEAN, TRUE) :
         LET path == Unwrap(raw_content_path)
         IN  IF UsesForcedKind(args.extractor_kind)
             THEN /\ extractor_kind' = args.extractor_kind
                  /\ maybe_file_ext' = None
                  /\ maybe_mime' = None
                  /\ pc' = "Classified"
                  /\ UNCHANGED <<err, log>>
             ELSE LET ext == file_extension_lowercase(path)
                      m == mime_type(ReadFile(path), readOk)
                  IN  IF ~m.ok
                      THEN /\ Fail("classify", m.msg)
                           /\ log' = log \o m.events
                           /\ UNCHANGED <<extractor_kind, maybe_file_ext, maybe_mime>>
                      ELSE /\ extractor_kind' = Some(KindByExtensionThenMime(ext, Some(m.val)))
                           /\ maybe_file_ext' = ext
                           /\ maybe_mime' = Some(m.val)
                           /\ pc' = "Classified"
                           /\ log' = log \o m.events \o LookupEvents(ext)
                           /\ err' = err
    /\ UNCHANGED <<args, localFile, outFile, scheme, workdirExists, rawFile,
                   raw_content_path, extFile, extracted_content_path, summary, spawned>>
    /\ UNCHANGED <<cli, cliCalls>>

(***************************************************************************)
(* cli_command.rs: argv is the program followed by the arguments           *)
(***************************************************************************)
CliCommand_new(program) == [program |-> program, args |-> << >>]
CliCommand_arg(cmd, a) == [cmd EXCEPT !.args = Append(@, a)]
\* an absent argument passed on as an empty one
CliCommand_arg_opt_blank(cmd, a) ==
    [cmd EXCEPT !.args = Append(@, IF IsSome(a) THEN Unwrap(a) ELSE << >>)]

CliCommand_arg_opt(cmd, a) ==
    IF IsSome(a) THEN [cmd EXCEPT !.args = Append(@, Unwrap(a))] ELSE cmd
CliCommand_args(cmd, as) == [cmd EXCEPT !.args = @ \o as]
CliCommand_argv(cmd) == <<cmd.program>> \o cmd.args

(***************************************************************************)
(* extractor/html.rs, pdf.rs, pandoc.rs, whisper.rs                        *)
(* Each backend is the set of results it can return, up to the write of    *)
(* <workdir>/ext: Ok(text) carries the text it is about to write.          *)
(***************************************************************************)
\* readability's text_content is written as it is
HtmlExtractor_extract(file) ==
    IF file = None
    THEN {Err("failed to read HTML content", <<"HtmlExtractor">>)}
    ELSE {Err("content is not valid UTF-8 for HTML conversion", <<"HtmlExtractor">>),
          Err("failed to initialize readability parser", <<"HtmlExtractor">>),
          Err("failed to extract text from HTML content", <<"HtmlExtractor">>)}
         \cup {Ok(t, <<"HtmlExtractor">>) : t \in Texts}

\* pdf.rs 29-38: trim, then reject the empty text
PdfText(t) ==
    LET text == Trim(t)
    IN  IF text = << >>
        THEN Err("failed to extract text from PDF content", <<"PdfExtractor">>)
        ELSE Ok(text, <<"PdfExtractor">>)

PdfExtractor_extract(file) ==
    IF file = None
    THEN {Err("failed to extract text from PDF content", <<"PdfExtractor">>)}
    ELSE {Err("failed to extract text from PDF content", <<"PdfExtractor">>)}
         \cup {PdfText(t) : t \in Texts}

\* the --from format of an extension or of a MIME type
pandoc_input_format_with(mime, extension) ==
    IF IsSome(extension)
    THEN LET ext == Unwrap(extension)
         IN  IF ext = <<"d","o","c","x">> THEN Some(<<"--from=", "docx">>)
             ELSE IF ext = <<"d","o","c">> THEN Some(<<"--from=", "doc">>)
             ELSE IF ext = <<"o","d","t">> THEN Some(<<"--from=", "odt">>)
             ELSE IF ext = <<"r","t","f">> THEN Some(<<"--from=", "rtf">>)
             ELSE IF ext = <<"e","p","u","b">> THEN Some(<<"--from=", "epub">>)
             ELSE IF ext = <<"m","d">> THEN Some(<<"--from=", "markdown">>)
             ELSE IF ext \in {<<"h","t","m","l">>, <<"h","t","m">>, <<"x","h","t","m","l">>}
                  THEN Some(<<"--from=", "html">>)
             ELSE IF ext \in {<<"t","x","t">>, <<"t","e","x","t">>}
                  THEN Some(<<"--from=", "plain">>)
             ELSE IF ext \in {<<"t","e","x">>, <<"l","a","t","e","x">>}
                  THEN Some(<<"--from=", "latex">>)
             ELSE None
    ELSE IF IsSome(mime)
    THEN LET m == Unwrap(mime)
         IN  IF m = "application/vnd.openxmlformats-officedocument.wordprocessingml.document"
                  THEN Some(<<"--from=", "docx">>)
             ELSE IF m = "application/msword" THEN Some(<<"--from=", "doc">>)
             ELSE IF m = "application/vnd.oasis.opendocument.text"
                  THEN Some(<<"--from=", "odt">>)
             ELSE IF m \in {"application/rtf", "text/rtf"} THEN Some(<<"--from=", "rtf">>)
             ELSE IF m = "application/epub+zip" THEN Some(<<"--from=", "epub">>)
             ELSE IF m = "text/markdown" THEN Some(<<"--from=", "markdown">>)
             ELSE IF m \in {"text/html", "application/xhtml+xml"}
                  THEN Some(<<"--from=", "html">>)
             ELSE IF m = "text/plain" THEN Some(<<"--from=", "plain">>)
             ELSE IF m \in {"text/latex", "application/x-tex", "text/x-tex"}
                  THEN Some(<<"--from=", "latex">>)
             ELSE None
    ELSE None

\* pandoc.rs 78-81
\* the format hint taken from the content path when no extension is handed over
PandocCommandByPath(content_path, extension, mime) ==
    CliCommand_arg(
        CliCommand_args(
            CliCommand_arg_opt(CliCommand_new(<<"pandoc">>),
                               pandoc_input_format_with(
                                   mime,
                                   IF IsSome(extension) THEN extension
                                   ELSE file_extension_lowercase(content_path))),
            << <<"--to">>, <<"plain">>, <<"--wrap=none">>, <<"--markdown-headings=atx">> >>),
        content_path)

PandocCommand(content_path, extension, mime) ==
    CliCommand_arg(
        CliCommand_args(
            CliCommand_arg_opt(CliCommand_new(<<"pandoc">>),
                               pandoc_input_format_with(mime, extension)),
            << <<"--to">>, <<"plain">>, <<"--wrap=none">>, <<"--markdown-headings=atx">> >>),
        content_path)

\* what a finished subprocess hands back; stdout None is bytes that are not UTF-8
ProcessOutputs ==
    [success : BOOLEAN, stdout : {None} \cup {Some(t) : t \in Texts}]

\* output.status.success(), as it shows in the log
ExitEvent(out) == IF out.success THEN "exit_zero" ELSE "exit_nonzero"

\* success inferred from a stdout that holds text, whatever the exit status
PandocOutputByStdout(out) ==
    LET ev == <<"PandocExtractor", "which_pandoc", "spawn_pandoc", ExitEvent(out)>>
    IN  IF out.stdout = None THEN Err("pandoc output is not valid UTF-8", ev)
        ELSE IF Trim(Unwrap(out.stdout)) = << >>
        THEN (IF out.success THEN Err("pandoc produced empty output", ev)
              ELSE Err("pandoc failed", ev))
        ELSE Ok(Trim(Unwrap(out.stdout)), ev)

\* pandoc.rs 98-123
PandocOutput(out) ==
    LET ev == <<"PandocExtractor", "which_pandoc", "spawn_pandoc", ExitEvent(out)>>
    IN  IF ~out.success THEN Err("pandoc failed", ev)
        ELSE IF out.stdout = None THEN Err("pandoc output is not valid UTF-8", ev)
        ELSE LET text == Trim(Unwrap(out.stdout))
             IN  IF text = << >> THEN Err("pandoc produced empty output", ev)
                 ELSE Ok(text, ev)

\* the subprocess spawned first, its NotFound error turned into the hint
PandocExtractor_spawn_first(pandocOnPath) ==
    IF ~pandocOnPath
    THEN {Err("PANDOC_INSTALLATION_HINT", <<"PandocExtractor", "spawn_pandoc">>)}
    ELSE {Err("failed to run pandoc", <<"PandocExtractor", "spawn_pandoc">>)}
         \cup {PandocOutput(out) : out \in ProcessOutputs}

PandocExtractor_extract(pandocOnPath) ==
    IF IsSome(validate_command_executable(pandocOnPath))
    THEN {Err("PANDOC_INSTALLATION_HINT", <<"PandocExtractor", "which_pandoc">>)}
    ELSE {Err("failed to run pandoc", <<"PandocExtractor", "which_pandoc", "spawn_pandoc">>)}
         \cup {PandocOutput(out) : out \in ProcessOutputs}

\* whisper.rs 120-133: the transcript is trimmed, the empty one rejected
WhisperText(t) ==
    LET ev == <<"WhisperExtractor", "read_env", "decode_audio", "transcribe">>
        text == Trim(t)
    IN  IF text = << >> THEN Err("whisper produced empty output", ev)
        ELSE Ok(text, ev)

\* the audio decoded first, the model path validated after it
WhisperExtractor_decode_first(file, whisperEnv) ==
    IF file = None
    THEN {Err("failed to open audio file", <<"WhisperExtractor", "decode_audio">>)}
    ELSE IF IsSome(validate_whisper_model_path_from_env(whisperEnv))
    THEN {Err(Unwrap(validate_whisper_model_path_from_env(whisperEnv)),
              <<"WhisperExtractor", "decode_audio", "read_env">>)}
    ELSE {Err("failed to run whisper transcription",
              <<"WhisperExtractor", "decode_audio", "read_env", "transcribe">>)}
         \cup {WhisperText(t) : t \in Texts}

WhisperExtractor_extract(file, whisperEnv) ==
    IF IsSome(validate_whisper_model_path_from_env(whisperEnv))
    THEN {Err(Unwrap(validate_whisper_model_path_from_env(whisperEnv)),
              <<"WhisperExtractor", "read_env">>)}
    ELSE IF file = None
    THEN {Err("failed to open audio file", <<"WhisperExtractor", "read_env", "decode_audio">>)}
    ELSE {Err("failed to decode audio", <<"WhisperExtractor", "read_env", "decode_audio">>),
          Err("decoded audio is empty", <<"WhisperExtractor", "read_env", "decode_audio">>),
          Err("failed to run whisper transcription",
              <<"WhisperExtractor", "read_env", "decode_audio", "transcribe">>)}
         \cup {WhisperText(t) : t \in Texts}

(***************************************************************************)
(* 4. Extract content                                                      *)
(***************************************************************************)
\* extract creating the WorkDir whatever the kind
ExtractAlwaysCreatesWorkDir(kind) == TRUE

\* main.rs extract: `if *extractor_kind != Kind::PlainText { create_dir_all(workdir) }`
ExtractCreatesWorkDir(kind) == kind # "PlainText"

\* {:?} of an Option
DebugOption(o) == IF IsSome(o) THEN <<"Some", Unwrap(o)>> ELSE <<"None">>

\* main.rs 446-454: what the message of an unsupported kind is formatted from
UnsupportedKindDetail(ext, mime) == <<DebugOption(ext), DebugOption(mime)>>

\* a PlainText result that names the staged artifact, which nothing wrote
PlainTextStaged(content_path) == ExtPath

\* main.rs 440: `Kind::PlainText => return Ok(content_path.into())`
PlainTextResult(content_path) == content_path

\* the Box<dyn Extractor> main.rs 439-444 builds, run on the content
Backend(kind, file, pandocOnPath, whisperEnv) ==
    IF kind = "HtmlNative" THEN HtmlExtractor_extract(file)
    ELSE IF kind = "PdfNative" THEN PdfExtractor_extract(file)
    ELSE IF kind = "Pandoc" THEN PandocExtractor_extract(pandocOnPath)
    ELSE WhisperExtractor_extract(file, whisperEnv)

Extract ==
    /\ pc = "Classified"
    /\ \E mkdirOk \in ReadWhen(ExtractCreatesWorkDir(Unwrap(extractor_kind)) /\ ~workdirExists,
                               BOOLEAN, TRUE),
          writeOk \in ReadWhen(Unwrap(extractor_kind) \in RealBackendKinds, BOOLEAN, TRUE),
          pandocOnPath \in ReadWhen(Unwrap(extractor_kind) = "Pandoc", BOOLEAN, TRUE),
          whisperEnv \in ReadWhen(Unwrap(extractor_kind) = "Whisper", WhisperEnv, "unset") :
         LET kind == Unwrap(extractor_kind)
             content_path == Unwrap(raw_content_path)
             mk == ExtractCreatesWorkDir(kind)
             log1 == IF mk THEN Append(log, "create_dir_all") ELSE log
             wd1 == workdirExists \/ mk
         IN  IF mk /\ ~create_dir_all(workdirExists, mkdirOk)
             THEN /\ Fail("extract", "failed to create workdir")
                  /\ log' = log1
                  /\ UNCHANGED <<workdirExists, extFile, extracted_content_path, spawned>>
             ELSE IF kind = "PlainText"
             THEN /\ extracted_content_path' = Some(PlainTextResult(content_path))
                  /\ pc' = "Extracted"
                  /\ workdirExists' = wd1
                  /\ log' = log1
                  /\ UNCHANGED <<extFile, spawned, err>>
             ELSE IF kind = "Unsupported"
             THEN /\ FailWith("extract", "unsupported extractor kind for ext/mime",
                              UnsupportedKindDetail(maybe_file_ext, maybe_mime))
                  /\ workdirExists' = wd1
                  /\ log' = log1
                  /\ UNCHANGED <<extFile, extracted_content_path, spawned>>
             ELSE \E r \in Backend(kind, ReadFile(content_path), pandocOnPath, whisperEnv) :
                    LET log2 == log1 \o r.events
                    IN  /\ workdirExists' = wd1
                        /\ spawned' = IF \E i \in 1..Len(r.events) : r.events[i] = "spawn_pandoc"
                                      THEN Some(CliCommand_argv(
                                               PandocCommand(content_path, maybe_file_ext,
                                                             maybe_mime)))
                                      ELSE spawned
                        /\ IF ~r.ok
                           THEN /\ Fail("extract", r.msg)
                                /\ log' = log2
                                /\ UNCHANGED <<extFile, extracted_content_path>>
                           ELSE IF ~(writeOk /\ wd1)
                           THEN /\ Fail("extract", "failed to write extracted text content")
                                /\ log' = log2
                                /\ UNCHANGED <<extFile, extracted_content_path>>
                           ELSE /\ extFile' = Some(r.val)
                                /\ extracted_content_path' = Some(ExtPath)
                                /\ pc' = "Extracted"
                                /\ log' = Append(log2, "write_ext")
                                /\ err' = err
    /\ UNCHANGED <<args, localFile, outFile, scheme, rawFile, raw_content_path,
                   extractor_kind, maybe_file_ext, maybe_mime, summary>>
    /\ UNCHANGED <<cli, cliCalls>>

(***************************************************************************)
(* Extract mode: copy to the output path                                   *)
(***************************************************************************)
\* the mode taken for summarize whatever the subcommand
NeverExtractCommand(command) == FALSE

\* the mode taken for extract whatever the subcommand
AlwaysExtractCommand(command) == TRUE

\* main.rs 319: `if let Some(Command::Extract(_)) = &command`
IsExtractCommand(command) == command = "Extract"

\* fs::rename in the place of fs::copy: the extracted artifact is moved
CopyOutByRename ==
    /\ pc = "Extracted"
    /\ IsExtractCommand(args.command)
    /\ \E parentsOk \in BOOLEAN, copyOk \in BOOLEAN :
         LET src == ReadFile(Unwrap(extracted_content_path))
         IN  IF ~parentsOk
             THEN /\ Fail("output", "failed to create parent directories")
                  /\ log' = Append(log, "create_parent_dirs")
                  /\ UNCHANGED <<outFile, extFile>>
             ELSE IF src = None \/ ~copyOk
             THEN /\ Fail("output", "failed to write extracted content to output path")
                  /\ log' = log \o <<"create_parent_dirs", "copy">>
                  /\ UNCHANGED <<outFile, extFile>>
             ELSE /\ outFile' = src
                  /\ extFile' = None
                  /\ pc' = "CopiedOut"
                  /\ log' = log \o <<"create_parent_dirs", "copy">>
                  /\ err' = err
    /\ UNCHANGED <<args, localFile, scheme, workdirExists, rawFile, raw_content_path,
                   extractor_kind, maybe_file_ext, maybe_mime,
                   extracted_content_path, summary, spawned>>
    /\ UNCHANGED <<cli, cliCalls>>

CopyOut ==
    /\ pc = "Extracted"
    /\ IsExtractCommand(args.command)
    /\ \E parentsOk \in BOOLEAN, copyOk \in BOOLEAN :
         LET src == ReadFile(Unwrap(extracted_content_path))
         IN  IF ~parentsOk
             THEN /\ Fail("output", "failed to create parent directories")
                  /\ log' = Append(log, "create_parent_dirs")
                  /\ UNCHANGED outFile
             ELSE IF src = None \/ ~copyOk
             THEN /\ Fail("output", "failed to write extracted content to output path")
                  /\ log' = log \o <<"create_parent_dirs", "copy">>
                  /\ UNCHANGED outFile
             ELSE /\ outFile' = src
                  /\ pc' = "CopiedOut"
                  /\ log' = log \o <<"create_parent_dirs", "copy">>
                  /\ err' = err
    /\ UNCHANGED <<args, localFile, scheme, workdirExists, rawFile, raw_content_path,
                   extractor_kind, maybe_file_ext, maybe_mime, extFile,
                   extracted_content_path, summary, spawned>>
    /\ UNCHANGED <<cli, cliCalls>>

(***************************************************************************)
(* 5. Summarize content, 6. Write output                                   *)
(***************************************************************************)
\* main.rs summarize: read the content, build the messages, ask the LLM
summarize(file) ==
    IF file = None
    THEN {Err("failed to read extracted content", <<"read_to_string">>)}
    ELSE {Err("failed to read extracted content", <<"read_to_string">>),
          Err("failed to infer provider from model", <<"read_to_string">>),
          Err("failed to create chat messages", <<"read_to_string">>),
          Err("failed to execute chat request", <<"read_to_string", "chat_request">>),
          Err("LLM returned no text", <<"read_to_string", "chat_request">>)}
         \cup {Ok(t, <<"read_to_string", "chat_request">>) : t \in Summaries}

Summarize ==
    /\ pc = "Extracted"
    /\ ~IsExtractCommand(args.command)
    /\ \E r \in summarize(ReadFile(Unwrap(extracted_content_path))) :
         /\ log' = log \o r.events
         /\ IF r.ok
            THEN /\ summary' = Some(r.val)
                 /\ pc' = "SummaryReady"
                 /\ err' = err
            ELSE /\ Fail("summarize", r.msg)
                 /\ UNCHANGED summary
    /\ UNCHANGED <<args, localFile, outFile, scheme, workdirExists, rawFile,
                   raw_content_path, extractor_kind, maybe_file_ext, maybe_mime,
                   extFile, extracted_content_path, spawned>>
    /\ UNCHANGED <<cli, cliCalls>>

WriteOutput ==
    /\ pc = "SummaryReady"
    /\ \E parentsOk \in BOOLEAN, writeOk \in BOOLEAN :
         IF ~parentsOk
         THEN /\ Fail("output", "failed to create parent directories")
              /\ log' = Append(log, "create_parent_dirs")
              /\ UNCHANGED outFile
         ELSE IF ~writeOk
         THEN /\ Fail("output", "failed to write summary to output path")
              /\ log' = log \o <<"create_parent_dirs", "write_out">>
              /\ UNCHANGED outFile
         ELSE /\ outFile' = summary
              /\ pc' = "Summarized"
              /\ log' = log \o <<"create_parent_dirs", "write_out">>
              /\ err' = err
    /\ UNCHANGED <<args, localFile, scheme, workdirExists, rawFile, raw_content_path,
                   extractor_kind, maybe_file_ext, maybe_mime, extFile,
                   extracted_content_path, summary, spawned>>
    /\ UNCHANGED <<cli, cliCalls>>

Next ==
    \/ Validate
    \/ DetectScheme
    \/ Fetch
    \/ Classify
    \/ Extract
    \/ CopyOut
    \/ Summarize
    \/ WriteOutput

Spec == Init /\ [][Next]_vars

\* runs in the temporary WorkDir over one input of each scheme and kind
FairInputs == {
    <<"a",".","t","x","t">>,
    <<"a",".","H","T","M">>,
    <<"a",".","d","o","c">>,
    <<"a",".","m","p","3">>,
    <<"a",".","x">>,
    <<"h","t","t","p",":","/","/","a",".","p","d","f">>,
    <<"f","t","p",":","/","/","a">>
}

InitFair ==
    /\ Init
    /\ args.workdir = None
    /\ args.input \in {None} \cup {Some(i) : i \in FairInputs}

\* every call main awaits returns: a step that can be taken is taken
FairSpec == InitFair /\ [][Next]_vars /\ WF_vars(Next)

(***************************************************************************)
(* scheme.rs on its own: detect applied to a family of input strings       *)
(***************************************************************************)
SchemeWords == {
    << >>,
    <<"h","t","t","p">>,
    <<"H","T","T","P">>,
    <<"h","t","t","p","s">>,
    <<"h","T","t","P","s">>,
    <<"f","i","l","e">>,
    <<"F","i","l","e">>,
    <<"f","t","p">>,
    <<"h","t","t">>,
    <<"h","t","t","p","x">>,
    <<"x","h","t","t","p">>,
    <<"/","f","i","l","e">>
}
SchemeSeparators == {<< >>, <<":","/","/">>, <<":","/">>, <<":">>, <<"/","/">>}
SchemeRests == {<< >>, <<"a">>, <<"x",":","/","/","b">>, <<":","/","/">>}
DetectInputs ==
    {w \o p \o r : w \in SchemeWords, p \in SchemeSeparators, r \in SchemeRests}

InitDetect ==
    /\ args \in [command : {"NoCommand"},
                 input : {Some(i) : i \in DetectInputs},
                 output : {Some(OutPath)},
                 workdir : {None},
                 extractor_kind : {None},
                 http_mode : {"Get"}]
    /\ localFile = None
    /\ outFile = None
    /\ pc = "Init"
    /\ scheme = None
    /\ workdirExists = FALSE
    /\ rawFile = None
    /\ raw_content_path = None
    /\ extractor_kind = None
    /\ maybe_file_ext = None
    /\ maybe_mime = None
    /\ extFile = None
    /\ extracted_content_path = None
    /\ summary = None
    /\ spawned = None
    /\ err = None
    /\ log = << >>
    /\ cli = CliCommand_default
    /\ cliCalls = << >>

NextDetect == DetectScheme

SpecDetect == InitDetect /\ [][NextDetect]_vars

(***************************************************************************)
(* classification of files around the size of the sniffed prefix           *)
(***************************************************************************)
\* n bytes of text that end in the byte `last`
LongContent(n, last) == [i \in 1..n |-> IF i = n THEN last ELSE "a"]

SniffContents ==
    RawContents
    \cup {<< >>}
    \cup {LongContent(n, last) : n \in {MIME_SNIFF_BYTES, MIME_SNIFF_BYTES + 1},
                                 last \in {"a", "0"}}

SniffInputs == {
    <<"a">>,
    <<"a",".","x">>,
    <<".","t","x","t">>,
    <<"a",".","P","D","F">>,
    <<"h","t","t","p",":","/","/","a",".","p","d","f">>
}

InitSniff ==
    /\ args \in [command : {"Extract"},
                 input : {Some(i) : i \in SniffInputs},
                 output : {Some(OutPath)},
                 workdir : {None},
                 extractor_kind : {None, Some("PlainText")},
                 http_mode : {"Get"}]
    /\ localFile \in {None} \cup {Some(c) : c \in SniffContents}
    /\ outFile = None
    /\ pc = "Parsed"
    /\ scheme = None
    /\ workdirExists = FALSE
    /\ rawFile = None
    /\ raw_content_path = None
    /\ extractor_kind = None
    /\ maybe_file_ext = None
    /\ maybe_mime = None
    /\ extFile = None
    /\ extracted_content_path = None
    /\ summary = None
    /\ spawned = None
    /\ err = None
    /\ log = << >>
    /\ cli = CliCommand_default
    /\ cliCalls = << >>

NextSniff ==
    \/ Validate
    \/ DetectScheme
    \/ Fetch
    \/ Classify

SpecSniff == InitSniff /\ [][NextSniff]_vars

(***************************************************************************)
(* cli_command.rs on its own: builder calls on a CliCommand                *)
(***************************************************************************)
MaxCalls == 3

CliPrograms == {<<"echo">>, <<"pandoc">>}
CliArguments == {<<"hello">>, <<"--flag">>, << >>}
CliArgumentLists ==
    {<< >>} \cup {<<a>> : a \in CliArguments}
            \cup {<<a, b>> : a \in CliArguments, b \in CliArguments}

InitCli ==
    /\ args = [command |-> "Extract", input |-> None, output |-> None,
               workdir |-> None, extractor_kind |-> None, http_mode |-> "Get"]
    /\ localFile = None
    /\ outFile = None
    /\ pc = "Parsed"
    /\ scheme = None
    /\ workdirExists = FALSE
    /\ rawFile = None
    /\ raw_content_path = None
    /\ extractor_kind = None
    /\ maybe_file_ext = None
    /\ maybe_mime = None
    /\ extFile = None
    /\ extracted_content_path = None
    /\ summary = None
    /\ spawned = None
    /\ err = None
    /\ log = << >>
    /\ cli \in {CliCommand_new(p) : p \in CliPrograms}
    /\ cliCalls = << >>

CliUnchanged ==
    UNCHANGED <<args, localFile, outFile, pc, scheme, workdirExists, rawFile,
                raw_content_path, extractor_kind, maybe_file_ext, maybe_mime, extFile,
                extracted_content_path, summary, spawned, err, log>>

\* cmd.arg(a)
CallArg ==
    /\ Len(cliCalls) < MaxCalls
    /\ \E a \in CliArguments :
         /\ cli' = CliCommand_arg(cli, a)
         /\ cliCalls' = Append(cliCalls, [op |-> "arg", given |-> <<a>>])
    /\ CliUnchanged

\* cmd.arg_opt(a), a an Option
CallArgOpt ==
    /\ Len(cliCalls) < MaxCalls
    /\ \E a \in {None} \cup {Some(x) : x \in CliArguments} :
         /\ cli' = CliCommand_arg_opt(cli, a)
         /\ cliCalls' = Append(cliCalls, [op |-> "arg_opt", given |-> a])
    /\ CliUnchanged

\* cmd.args(as)
CallArgs ==
    /\ Len(cliCalls) < MaxCalls
    /\ \E as \in CliArgumentLists :
         /\ cli' = CliCommand_args(cli, as)
         /\ cliCalls' = Append(cliCalls, [op |-> "args", given |-> as])
    /\ CliUnchanged

NextCli ==
    \/ CallArg
    \/ CallArgOpt
    \/ CallArgs

SpecCli == InitCli /\ [][NextCli]_vars

(***************************************************************************)
(* Properties                                                              *)
(***************************************************************************)
BeforeClassified == {"Parsed", "Rejected", "Init", "SchemeDetected", "Fetched"}
AfterClassified == {"Classified", "Extracted", "SummaryReady", "CopiedOut", "Summarized"}

BackendEvents == {"HtmlExtractor", "PdfExtractor", "PandocExtractor", "WhisperExtractor"}
BackendDispatched == \E i \in 1..Len(log) : log[i] \in BackendEvents

\* the lowercased extension of the raw path and the MIME its content sniffs as
RawExtension == file_extension_lowercase(Unwrap(raw_content_path))
RawMime == SniffMime(Prefix(Unwrap(ReadFile(Unwrap(raw_content_path)))))

\* forced kind > extension table > MIME table > Unsupported
PrecedenceKind ==
    IF IsSome(args.extractor_kind) THEN Unwrap(args.extractor_kind)
    ELSE IF IsSome(RawExtension) /\ Unwrap(RawExtension) \in DOMAIN EXT_INDEX
         THEN EXT_INDEX[Unwrap(RawExtension)]
    ELSE IF RawMime \in DOMAIN MIME_INDEX THEN MIME_INDEX[RawMime]
    ELSE "Unsupported"

\* C1: a run selects no kind before classification has completed and exactly
\* one kind once it has, and the selected kind is the forced kind if one is
\* supplied, otherwise the extension-table kind of the raw path's lowercased
\* extension if it is a key, otherwise the MIME-table kind of the sniffed
\* MIME if it is a key, otherwise Unsupported.
C1_ClassificationPrecedence ==
    /\ pc \in BeforeClassified => extractor_kind = None
    /\ pc \in AfterClassified => IsSome(extractor_kind)
    /\ IsSome(extractor_kind) => Unwrap(extractor_kind) = PrecedenceKind

\* a run classified by the MIME fallback: the extension missed, the sniff hit
C1_Witness ==
    /\ pc = "Classified"
    /\ args.extractor_kind = None
    /\ IsSome(maybe_file_ext)
    /\ match_kind_by_extension(maybe_file_ext) = "Unsupported"
    /\ extractor_kind = Some("PdfNative")

\* C2: with no forced kind and a raw path whose extension maps to a supported
\* kind, classification returns that kind and the prefix of the file is never
\* read in that run.
C2_ExtensionMatchReadsNoContent ==
    ( /\ args.extractor_kind = None
      /\ IsSome(raw_content_path)
      /\ match_kind_by_extension(RawExtension) # "Unsupported" )
    => /\ ~Logged("read_prefix")
       /\ pc # "Fetched" => extractor_kind = Some(match_kind_by_extension(RawExtension))

\* C3: with a forced kind, classification returns it at once: no extension
\* lookup, no MIME lookup, and no read of the raw file for classification.
C3_ForcedKindSkipsInspection ==
    IsSome(args.extractor_kind)
    => /\ ~Logged("read_prefix")
       /\ ~Logged("ext_lookup")
       /\ ~Logged("mime_lookup")
       /\ pc \in AfterClassified => extractor_kind = args.extractor_kind
       /\ pc \in AfterClassified => maybe_file_ext = None /\ maybe_mime = None

\* a forced Pandoc on a readable a.txt, which the extension table maps to PlainText
C3_Witness ==
    /\ pc = "Classified"
    /\ args.extractor_kind = Some("Pandoc")
    /\ args.input = Some(<<"a",".","t","x","t">>)
    /\ IsSome(localFile)
    /\ extractor_kind = Some("Pandoc")

\* the stage of main a call belongs to: 1 fetch, 2 classification,
\* 3 extraction, 4 summarization, 5 output; create_dir_all is made by two stages
EventStage(e) ==
    IF e \in {"fetcher", "GET", "headless", "status_2xx", "status_non_2xx",
              "write_raw"} THEN 1
    ELSE IF e \in {"read_prefix", "ext_lookup", "mime_lookup"} THEN 2
    ELSE IF e \in {"HtmlExtractor", "PdfExtractor", "PandocExtractor", "WhisperExtractor",
                    "which_pandoc", "spawn_pandoc", "exit_zero", "exit_nonzero",
                    "read_env", "decode_audio",
                    "transcribe", "write_ext"} THEN 3
    ELSE IF e \in {"read_to_string", "chat_request"} THEN 4
    ELSE IF e \in {"create_parent_dirs", "copy", "write_out"} THEN 5
    ELSE 0

StageRank(stage) ==
    IF stage = "fetch" THEN 1
    ELSE IF stage = "classify" THEN 2
    ELSE IF stage = "extract" THEN 3
    ELSE IF stage = "summarize" THEN 4
    ELSE IF stage = "output" THEN 5
    ELSE 0

\* what holds of a run with respect to failure
FailFastState ==
    /\ IsSome(err) <=> pc \in {"Failed", "Rejected"}
    /\ pc = "Failed"
       => /\ outFile = None
          /\ \A i \in 1..Len(log) : EventStage(log[i]) <= StageRank(Unwrap(err).stage)
    /\ (IsSome(scheme) /\ Unwrap(scheme) = "Unsupported" /\ pc # "SchemeDetected")
       => /\ pc = "Failed"
          /\ Unwrap(err).stage = "fetch"
          /\ \A i \in 1..Len(log) : EventStage(log[i]) = 0

\* C4: fail-fast. A failed stage ends the run: no step is taken after a
\* failure, so the error returned is the first one; no call of a later stage
\* has been made, the output path has not been written, and an Unsupported
\* scheme fails in fetch before any fetcher, classifier or extractor is called.
C4_FailFast ==
    [][ /\ pc \notin {"Failed", "Rejected"}
        /\ err = None
        /\ FailFastState' ]_vars

\* a summarize-mode run that fetched, classified and extracted, and failed in summarize
C4_Witness ==
    /\ pc = "Failed"
    /\ Unwrap(err).stage = "summarize"
    /\ Logged("fetcher")
    /\ Logged("write_ext")
    /\ outFile = None

\* the steps of the pipeline, in order; summarize mode passes through the
\* state in which the summary is in hand and the output not yet written
PipelineSteps ==
    {<<"Parsed", "Init">>, <<"Parsed", "Rejected">>,
     <<"Init", "SchemeDetected">>, <<"SchemeDetected", "Fetched">>,
     <<"Fetched", "Classified">>, <<"Classified", "Extracted">>}
    \cup (IF args.command = "Extract"
          THEN {<<"Extracted", "CopiedOut">>}
          ELSE {<<"Extracted", "SummaryReady">>, <<"SummaryReady", "Summarized">>})
    \cup {<<st, "Failed">> : st \in {"SchemeDetected", "Fetched", "Classified",
                                     "Extracted", "SummaryReady"}}

\* the calls of the stages appear in the order of the stages
IsStageCall(e) == EventStage(e) > 0

LogInStageOrder ==
    LET calls == SelectSeq(log, IsStageCall)
    IN  \A i \in 1..(Len(calls) - 1) : EventStage(calls[i]) <= EventStage(calls[i + 1])

\* a state is entered with the result of the stage before it in hand
StageResults ==
    /\ pc \in {"SchemeDetected", "Fetched"} \cup AfterClassified => IsSome(scheme)
    /\ pc \in {"Fetched"} \cup AfterClassified => IsSome(raw_content_path)
    /\ pc \in AfterClassified => IsSome(extractor_kind)
    /\ pc \in AfterClassified \ {"Classified"} => IsSome(extracted_content_path)
    /\ pc \in {"SummaryReady", "Summarized"} => IsSome(summary)
    /\ pc \in {"CopiedOut", "Summarized"} => IsSome(outFile)

\* C5: the states are visited in the order Init, SchemeDetected, Fetched,
\* Classified, Extracted, then CopiedOut in extract mode or Summarized in
\* summarize mode: every step is the next one of that order (or a failure),
\* each state is entered with the preceding stage's result, and the calls of
\* the stages never interleave.
C5_StagesInOrder ==
    /\ [][ /\ <<pc, pc'>> \in PipelineSteps
           /\ StageResults' ]_vars
    /\ []LogInStageOrder

\* an extract-mode run over Http that ran every stage and copied out
C5_Witness ==
    /\ pc = "CopiedOut"
    /\ Logged("fetcher")
    /\ Logged("read_prefix")
    /\ BackendDispatched
    /\ Logged("copy")

\* C6: the WorkDir is created only when the Http fetcher or a real backend
\* is dispatched; a run that ends with an Unsupported scheme, or with an
\* Unsupported kind on a File input, never creates it.
C6_WorkDirOnlyWhenNeeded ==
    /\ workdirExists => (Logged("fetcher") \/ BackendDispatched)
    /\ (IsSome(scheme) /\ Unwrap(scheme) = "Unsupported") => ~Logged("create_dir_all")
    /\ (scheme = Some("File") /\ extractor_kind = Some("Unsupported"))
       => ~Logged("create_dir_all")

\* C7, the specification's statement: in a run whose selected kind is PlainText, whatever the
\* scheme, no WorkDir exists at any point.
C7_PlainTextNeverHasWorkDir ==
    extractor_kind = Some("PlainText") => ~workdirExists /\ ~Logged("create_dir_all")

\* C7, the statement that holds of the code: in a run whose selected kind is PlainText the extraction
\* stage short-circuits (the raw path is the extracted path, no ext artifact)
\* and creates no WorkDir: for a File input no WorkDir exists at any point,
\* for an Http input the only creation is the one fetch made.
C7_PlainTextExtractCreatesNoWorkDir ==
    extractor_kind = Some("PlainText")
    => /\ Count("create_dir_all") = (IF scheme = Some("Http") THEN 1 ELSE 0)
       /\ scheme = Some("File") => ~workdirExists
       /\ ~BackendDispatched
       /\ extFile = None
       /\ pc \in AfterClassified \ {"Classified"}
          => extracted_content_path = raw_content_path

\* a local file classified PlainText by the sniff and passed through extract
C7_Witness ==
    /\ pc = "Extracted"
    /\ extractor_kind = Some("PlainText")
    /\ args.extractor_kind = None
    /\ scheme = Some("File")
    /\ ~workdirExists

\* C8: for a File input, fetch creates no WorkDir, calls no fetcher, writes
\* no raw artifact and returns the input string itself as the raw path.
C8_FileSchemeFetchIsIdentity ==
    scheme = Some("File")
    => /\ ~Logged("fetcher")
       /\ ~Logged("write_raw")
       /\ rawFile = None
       /\ IsSome(raw_content_path) => raw_content_path = args.input
       /\ pc = "Fetched" => (~workdirExists /\ log = << >>)

\* the input file://a.md fetched: the prefix is still there
C8_Witness ==
    /\ pc = "Fetched"
    /\ args.input = Some(<<"f","i","l","e",":","/","/","a",".","m","d">>)
    /\ raw_content_path = Some(<<"f","i","l","e",":","/","/","a",".","m","d">>)

\* C9: whenever a real backend returns success, the ext artifact it wrote is
\* non-empty after trimming.
C9_ExtArtifactNonEmptyAfterTrim ==
    IsSome(extFile) => Trim(Unwrap(extFile)) # << >>

\* C10: whenever the selected kind is Unsupported, extraction fails without
\* dispatching a backend and without writing ext, and the failure names the
\* detected extension and the detected MIME (or their absence).
C10_UnsupportedKindFailureNamesExtAndMime ==
    (extractor_kind = Some("Unsupported") /\ pc # "Classified")
    => /\ pc = "Failed"
       /\ Unwrap(err).stage = "extract"
       /\ ~BackendDispatched
       /\ extFile = None
       /\ Unwrap(err).detail = <<DebugOption(RawExtension), DebugOption(Some(RawMime))>>

\* "://" starts at position k + 1 of s
SeparatorAt(s, k) ==
    /\ k + 3 <= Len(s)
    /\ SubSeq(s, k + 1, k + 3) = <<":","/","/">>

\* a and b are the same word up to the case of ASCII letters
SameIgnoringCase(a, b) ==
    /\ Len(a) = Len(b)
    /\ \A i \in 1..Len(a) :
          \/ a[i] = b[i]
          \/ \E n \in 1..Len(UpperChars) :
                {a[i], b[i]} = {UpperChars[n], LowerChars[n]}

\* the scheme an input has by the rule: File without "://"; otherwise by the
\* part left of the first "://", case ignored
SchemeByRule(s, result) ==
    IF \A k \in 0..Len(s) : ~SeparatorAt(s, k)
    THEN result = "File"
    ELSE \E k \in 0..Len(s) :
           /\ SeparatorAt(s, k)
           /\ \A j \in 0..(k - 1) : ~SeparatorAt(s, j)
           /\ LET left == SubSeq(s, 1, k)
              IN  IF \/ SameIgnoringCase(left, <<"h","t","t","p">>)
                     \/ SameIgnoringCase(left, <<"h","t","t","p","s">>)
                  THEN result = "Http"
                  ELSE IF SameIgnoringCase(left, <<"f","i","l","e">>)
                  THEN result = "File"
                  ELSE result = "Unsupported"

\* C11: scheme detection is a total function of the input string alone and
\* does no I/O: File without "://"; otherwise the lowercased part left of the
\* first "://" gives Http for http/https, File for file, Unsupported for
\* anything else.
C11_SchemeDetection ==
    pc = "SchemeDetected"
    => /\ scheme \in {Some(k) : k \in InputScheme}
       /\ SchemeByRule(Unwrap(args.input), Unwrap(scheme))
       /\ log = << >>
       /\ ~workdirExists /\ rawFile = None /\ outFile = None

\* a mixed-case https input with a second "://" after the first
C11_Witness ==
    /\ pc = "SchemeDetected"
    /\ args.input = Some(<<"h","T","t","P","s",":","/","/","x",":","/","/","b">>)
    /\ scheme = Some("Http")

\* the content of the raw file and its first 8 KiB
RawBytes == Unwrap(ReadFile(Unwrap(raw_content_path)))
SniffedBytes ==
    [i \in 1..(IF Len(RawBytes) <= 8 * 1024 THEN Len(RawBytes) ELSE 8 * 1024)
        |-> RawBytes[i]]

\* C12: with no forced kind and a raw path whose extension is absent or not
\* in the extension table, the sniffed MIME is that of the first 8 KiB of the
\* file at most, and the selected kind is its MIME-table kind, Unsupported
\* when the MIME is not in the table; application/pdf gives PdfNative
\* whatever the file is named.
C12_MimeFallback ==
    ( /\ pc = "Classified"
      /\ args.extractor_kind = None
      /\ (RawExtension = None \/ Unwrap(RawExtension) \notin DOMAIN EXT_INDEX) )
    => /\ maybe_mime = Some(SniffMime(SniffedBytes))
       /\ extractor_kind =
            Some(IF SniffMime(SniffedBytes) \in DOMAIN MIME_INDEX
                 THEN MIME_INDEX[SniffMime(SniffedBytes)]
                 ELSE "Unsupported")
       /\ SniffMime(SniffedBytes) = "application/pdf" => extractor_kind = Some("PdfNative")

\* a file without extension whose only NUL byte lies just past the first
\* 8 KiB: the sniff sees text
C12_Witness ==
    /\ pc = "Classified"
    /\ args.input = Some(<<"a">>)
    /\ localFile = Some(LongContent(MIME_SNIFF_BYTES + 1, "0"))
    /\ maybe_mime = Some("text/plain")
    /\ extractor_kind = Some("PlainText")

\* C13: in the Pandoc backend the check that pandoc is on PATH comes before
\* any spawn: a subprocess is spawned only after the check, and a run that
\* fails with the installation hint has spawned no subprocess and written no
\* ext artifact.
C13_PandocCheckedBeforeSpawn ==
    /\ \A j \in 1..Len(log) :
          log[j] = "spawn_pandoc" => \E i \in 1..(j - 1) : log[i] = "which_pandoc"
    /\ IsSome(spawned) <=> Logged("spawn_pandoc")
    /\ (pc = "Failed" /\ Unwrap(err).msg = "PANDOC_INSTALLATION_HINT")
       => /\ Unwrap(err).stage = "extract"
          /\ Logged("which_pandoc")
          /\ ~Logged("spawn_pandoc")
          /\ spawned = None
          /\ extFile = None
          /\ ~Logged("write_ext")

\* a .doc input classified Pandoc by its extension, pandoc not on PATH
C13_Witness ==
    /\ pc = "Failed"
    /\ Unwrap(err).msg = "PANDOC_INSTALLATION_HINT"
    /\ args.extractor_kind = None
    /\ extractor_kind = Some("Pandoc")
    /\ maybe_file_ext = Some(<<"d","o","c">>)
    /\ spawned = None

\* the format hint by the fallback order: the extension's format when the
\* extension has one, else the MIME's format when the MIME has one, else none
FormatHintByFallback(extension, mime) ==
    IF IsSome(extension) /\ IsSome(pandoc_input_format_with(None, extension))
    THEN pandoc_input_format_with(None, extension)
    ELSE IF IsSome(mime) THEN pandoc_input_format_with(mime, None)
    ELSE None

\* C14: the --from argument pandoc is spawned with is the extension-based
\* format when the extension has one; otherwise (extension absent or not in
\* the extension table of formats) the MIME-based format when the MIME has
\* one; and there is no --from argument only when neither applies.
C14_FormatHintFallbackOrder ==
    IsSome(spawned)
    => LET hint == FormatHintByFallback(maybe_file_ext, maybe_mime)
       IN  Unwrap(spawned) =
             <<<<"pandoc">>>> \o hint
             \o << <<"--to">>, <<"plain">>, <<"--wrap=none">>, <<"--markdown-headings=atx">> >>
             \o <<Unwrap(raw_content_path)>>

\* the errors validate_whisper_model_path_from_env returns
WhisperEnvErrors == {"missing_env", "empty_env", "invalid_whisper_model_path"}

\* C15: in the Whisper backend the model-path variable is validated before
\* any audio is decoded: decoding and transcription come only after the
\* variable was read, a run whose extraction fails on the variable (unset,
\* blank, no such path, not a regular file) has decoded and transcribed
\* nothing and written no ext artifact, and no backend but Whisper reads it.
C15_WhisperModelPathValidatedFirst ==
    /\ \A j \in 1..Len(log) :
          log[j] \in {"decode_audio", "transcribe"}
          => \E i \in 1..(j - 1) : log[i] = "read_env"
    /\ (pc = "Failed" /\ Unwrap(err).stage = "extract"
                      /\ Unwrap(err).msg \in WhisperEnvErrors)
       => /\ Logged("read_env")
          /\ ~Logged("decode_audio")
          /\ ~Logged("transcribe")
          /\ extFile = None
    /\ Logged("read_env")
       => /\ extractor_kind = Some("Whisper")
          /\ \A i \in 1..Len(log) : log[i] \in BackendEvents => log[i] = "WhisperExtractor"
    /\ (BackendDispatched /\ extractor_kind # Some("Whisper")) => ~Logged("read_env")

\* an .mp3 input with the variable unset: extraction fails on the variable
C15_Witness ==
    /\ pc = "Failed"
    /\ Unwrap(err).stage = "extract"
    /\ Unwrap(err).msg = "missing_env"
    /\ maybe_file_ext = Some(<<"m","p","3">>)
    /\ IsSome(localFile)
    /\ ~Logged("decode_audio")

\* C16, the specification's statement: after a successful extract-mode run
\* the output file holds the bytes of <workdir>/ext.
C16_OutputEqualsExtArtifact ==
    pc = "CopiedOut" => (IsSome(extFile) /\ outFile = extFile)

\* the output holds the bytes of the extracted content
OutputEqualsExtracted ==
    pc = "CopiedOut"
    => /\ IsSome(outFile)
       /\ outFile = ReadFile(Unwrap(extracted_content_path))
       /\ extractor_kind # Some("PlainText")
          => (extracted_content_path = Some(ExtPath) /\ outFile = extFile)
       /\ extractor_kind = Some("PlainText")
          => /\ extracted_content_path = raw_content_path
             /\ extFile = None
             /\ outFile = (IF scheme = Some("Http") THEN rawFile ELSE localFile)

\* C16, the statement that holds of the code: after a successful
\* extract-mode run the output file holds the bytes of the file at the
\* extracted content path, which is <workdir>/ext when a backend ran and the
\* raw content itself when the kind is PlainText (no <workdir>/ext exists
\* then); the copy changes neither the artifacts nor the input file.
C16_OutputEqualsExtractedContent ==
    /\ []OutputEqualsExtracted
    /\ [][ pc' = "CopiedOut"
           => (extFile' = extFile /\ rawFile' = rawFile /\ localFile' = localFile) ]_vars

\* an extract-mode run of a backend: ext copied to the output
C16_Witness ==
    /\ pc = "CopiedOut"
    /\ extractor_kind = Some("PdfNative")
    /\ extFile = Some(<<"a">>)
    /\ outFile = Some(<<"a">>)
    /\ Logged("copy")

\* position in the log of the first call e, 0 when there is none
FirstCall(e) ==
    IF Logged(e) THEN SetMin({i \in 1..Len(log) : log[i] = e}) ELSE 0

\* C17: without a subcommand the run is a summarize run; in summarize mode
\* the output path is written at most once, only after the chat request has
\* returned a summary, and what is written is that summary; in extract mode
\* neither the extracted content is read for a prompt nor a chat request made.
C17_SummarizeModeOutput ==
    /\ Count("write_out") <= 1
    /\ args.command # "Extract"
       => /\ pc # "CopiedOut"
          /\ ~Logged("copy")
          /\ Logged("write_out")
             => /\ IsSome(summary)
                /\ 0 < FirstCall("chat_request")
                /\ FirstCall("chat_request") < FirstCall("write_out")
          /\ (pc \notin {"Parsed", "Rejected"} /\ IsSome(outFile))
             => /\ pc = "Summarized"
                /\ Count("write_out") = 1
                /\ outFile = summary
          /\ pc = "Summarized" => (IsSome(outFile) /\ outFile = summary)
    /\ args.command = "Extract"
       => /\ pc \notin {"SummaryReady", "Summarized"}
          /\ summary = None
          /\ ~Logged("read_to_string")
          /\ ~Logged("chat_request")
          /\ ~Logged("write_out")

\* a run without subcommand that wrote a summary differing from the
\* extracted text
C17_Witness ==
    /\ pc = "Summarized"
    /\ args.command = "NoCommand"
    /\ extFile = Some(<<"a">>)
    /\ summary = Some(<<" ">>)
    /\ outFile = Some(<<" ">>)

\* the directory the run stages in: --workdir, or the temporary one
StagingDir == IF IsSome(args.workdir) THEN Unwrap(args.workdir) ELSE TempDir

\* C18: a successful Http fetch returns exactly <workdir>/raw and a
\* successful backend extraction exactly <workdir>/ext; each of the two files
\* is written at most once in a run, by the fetcher and by the backend, and
\* the run writes no other file in the WorkDir.
C18_StagingFilenames ==
    /\ (scheme = Some("Http") /\ IsSome(raw_content_path))
       => /\ raw_content_path = Some(StagingDir \o <<"/","r","a","w">>)
          /\ IsSome(rawFile)
    /\ (BackendDispatched /\ IsSome(extracted_content_path))
       => /\ extracted_content_path = Some(StagingDir \o <<"/","e","x","t">>)
          /\ IsSome(extFile)
    /\ Count("write_raw") <= 1
    /\ Count("write_ext") <= 1
    /\ IsSome(rawFile) <=> Count("write_raw") = 1
    /\ IsSome(extFile) <=> Count("write_ext") = 1
    /\ Logged("write_raw") => Logged("fetcher")
    /\ Logged("write_ext") => BackendDispatched
    /\ (IsSome(rawFile) \/ IsSome(extFile)) => workdirExists

\* an Http run under --workdir that staged both files
C18_Witness ==
    /\ args.workdir = Some(<<"w",".","d">>)
    /\ raw_content_path = Some(<<"w",".","d","/","r","a","w">>)
    /\ extracted_content_path = Some(<<"w",".","d","/","e","x","t">>)
    /\ IsSome(rawFile)
    /\ IsSome(extFile)

\* C19, the specification's statement: the creation of the WorkDir is
\* performed at most once in a run.
C19_WorkDirCreationCalledOnce ==
    Count("create_dir_all") <= 1

\* C19, the statement that holds of the code: the WorkDir comes into
\* existence at most once in a run, by the first create_dir_all the run
\* makes, and is never removed; a later stage that needs it calls
\* create_dir_all again (fetch and extract both do, for an Http input with a
\* kind other than PlainText), and that call finds the directory, creates
\* nothing and does not fail.
C19_WorkDirCreatedOnce ==
    /\ [](Count("create_dir_all") <= 2)
    /\ [](workdirExists => Logged("create_dir_all"))
    /\ [][ /\ workdirExists => workdirExists'
           /\ (~workdirExists /\ workdirExists') => Count("create_dir_all")' = 1
           /\ (workdirExists /\ Count("create_dir_all")' > Count("create_dir_all"))
              => /\ Count("create_dir_all")' = 2
                 /\ pc = "Classified"
                 /\ scheme = Some("Http")
                 /\ (IsSome(err') => Unwrap(err').msg # "failed to create workdir") ]_vars

\* an Http run with a backend: two calls, one directory
C19_Witness ==
    /\ scheme = Some("Http")
    /\ extractor_kind = Some("HtmlNative")
    /\ Count("create_dir_all") = 2
    /\ workdirExists
    /\ pc = "Extracted"

\* the errors the fetchers report when no response came back
TransportErrors == {"failed to send GET", "failed to navigate"}

\* C20: whichever HTTP fetch implementation is selected, a response with a
\* non-2xx status makes fetch fail with an error that is not the one of a
\* transport error, and <workdir>/raw is not written.
C20_Non2xxFailsFetch ==
    Logged("status_non_2xx")
    => /\ pc = "Failed"
       /\ Unwrap(err).stage = "fetch"
       /\ Unwrap(err).msg \notin TransportErrors
       /\ rawFile = None
       /\ ~Logged("write_raw")

\* the bytes of the raw file of the run
RawFileOfRun == IF scheme = Some("Http") THEN rawFile ELSE localFile

\* what holds once a PlainText run is past extraction
PlainTextIdentity ==
    (extractor_kind = Some("PlainText") /\ pc \in AfterClassified \ {"Classified"})
    => /\ extracted_content_path = raw_content_path
       /\ ~BackendDispatched
       /\ ~Logged("write_ext")
       /\ extFile = None
       /\ ReadFile(Unwrap(extracted_content_path)) = RawFileOfRun
       /\ pc = "CopiedOut" => outFile = RawFileOfRun

\* C21: extraction of a PlainText run is the identity: it succeeds with the
\* raw content path as its result, dispatches no backend, writes no ext
\* artifact and leaves the raw file as it was, so that the copy-out or the
\* summarization that follows reads the bytes of the raw file.
C21_PlainTextExtractionIsIdentity ==
    /\ []PlainTextIdentity
    /\ [][ (pc = "Classified" /\ extractor_kind = Some("PlainText"))
           => /\ pc' = "Extracted"
              /\ extracted_content_path' = raw_content_path
              /\ rawFile' = rawFile
              /\ localFile' = localFile
              /\ extFile' = extFile
              /\ log' = log ]_vars

\* a fetched page forced to PlainText and copied out: the output is the body
C21_Witness ==
    /\ pc = "CopiedOut"
    /\ scheme = Some("Http")
    /\ extractor_kind = Some("PlainText")
    /\ rawFile = Some(<<"<","a">>)
    /\ outFile = Some(<<"<","a">>)

\* C22: in the Pandoc backend a non-zero exit status is a failure whatever
\* stdout holds: extraction returns the error of the failed subprocess and
\* no ext artifact is written; stdout is validated as UTF-8, trimmed and
\* written only after an exit status of success.
C22_PandocNonZeroExitFails ==
    /\ Logged("exit_nonzero")
       => /\ pc = "Failed"
          /\ Unwrap(err).stage = "extract"
          /\ Unwrap(err).msg = "pandoc failed"
          /\ extFile = None
          /\ extracted_content_path = None
          /\ ~Logged("write_ext")
    /\ (extractor_kind = Some("Pandoc") /\ IsSome(extFile))
       => /\ Logged("exit_zero")
          /\ Unwrap(extFile) # << >>
          /\ Trim(Unwrap(extFile)) = Unwrap(extFile)
    /\ (pc = "Failed" /\ Unwrap(err).msg \in {"pandoc output is not valid UTF-8",
                                              "pandoc produced empty output"})
       => Logged("exit_zero")

\* a Pandoc run whose subprocess exited with a failure status
C22_Witness ==
    /\ pc = "Failed"
    /\ extractor_kind = Some("Pandoc")
    /\ Logged("exit_nonzero")
    /\ IsSome(spawned)
    /\ extFile = None

\* the elements of a sequence
Range(seq) == {seq[i] : i \in 1..Len(seq)}

\* the kinds the declarative list names a key under
KindsListingExt(key) ==
    {IndexEntries[n].variant : n \in {m \in 1..Len(IndexEntries) : key \in Range(IndexEntries[m].ext)}}
KindsListingMime(key) ==
    {IndexEntries[n].variant : n \in {m \in 1..Len(IndexEntries) : key \in Range(IndexEntries[m].mime)}}

ListedExts == UNION {Range(IndexEntries[n].ext) : n \in 1..Len(IndexEntries)}
ListedMimes == UNION {Range(IndexEntries[n].mime) : n \in 1..Len(IndexEntries)}

\* C23: the two tables hold the declarative list and nothing else: a key
\* listed under a kind looks up to exactly that kind, several keys map to one
\* kind, no key maps to Unsupported, a key that is not listed looks up to
\* nothing and is classified Unsupported; and at every point of a run the
\* lookups of classification answer by that list.
C23_IndexTables ==
    /\ DOMAIN EXT_INDEX = ListedExts
    /\ DOMAIN MIME_INDEX = ListedMimes
    /\ \A k \in ListedExts : KindsListingExt(k) = {EXT_INDEX[k]}
    /\ \A k \in ListedMimes : KindsListingMime(k) = {MIME_INDEX[k]}
    /\ \A k \in ListedExts : EXT_INDEX[k] # "Unsupported"
    /\ \A k \in ListedMimes : MIME_INDEX[k] # "Unsupported"
    /\ \E k1, k2 \in ListedExts : k1 # k2 /\ EXT_INDEX[k1] = EXT_INDEX[k2]
    /\ \E k1, k2 \in ListedMimes : k1 # k2 /\ MIME_INDEX[k1] = MIME_INDEX[k2]
    /\ MapGet(EXT_INDEX, <<"x">>) = None
    /\ MapGet(MIME_INDEX, "application/octet-stream") = None
    /\ match_kind_by_extension(Some(<<"x">>)) = "Unsupported"
    /\ match_kind_by_mime(Some("application/octet-stream")) = "Unsupported"
    /\ (pc = "Classified" /\ args.extractor_kind = None)
       => /\ (IsSome(maybe_file_ext) /\ Unwrap(maybe_file_ext) \in ListedExts)
             => extractor_kind \in {Some(k) : k \in KindsListingExt(Unwrap(maybe_file_ext))}
          /\ (~(IsSome(maybe_file_ext) /\ Unwrap(maybe_file_ext) \in ListedExts)
              /\ Unwrap(maybe_mime) \in ListedMimes)
             => extractor_kind \in {Some(k) : k \in KindsListingMime(Unwrap(maybe_mime))}
          /\ (~(IsSome(maybe_file_ext) /\ Unwrap(maybe_file_ext) \in ListedExts)
              /\ Unwrap(maybe_mime) \notin ListedMimes)
             => extractor_kind = Some("Unsupported")

\* a file classified by a key that is not the first of its list:
\* application/rtf is the fourth MIME of Pandoc
C23_Witness ==
    /\ pc = "Classified"
    /\ args.extractor_kind = None
    /\ maybe_file_ext = Some(<<"x">>)
    /\ maybe_mime = Some("application/rtf")
    /\ extractor_kind = Some("Pandoc")

\* the arguments given by a sequence of builder calls, in the order given
RECURSIVE GivenArguments(_)
GivenArguments(calls) ==
    IF calls = << >> THEN << >>
    ELSE Head(calls).given \o GivenArguments(Tail(calls))

\* the pandoc invocation for the hints and the content path
PandocInvocationInOrder ==
    \A ext \in {None, Some(<<"d","o","c">>), Some(<<"x">>)},
       mime \in {None, Some("application/rtf")},
       path \in {<<"a">>, <<"w",".","d","/","r","a","w">>} :
        CliCommand_argv(PandocCommand(path, ext, mime))
        = <<<<"pandoc">>>> \o pandoc_input_format_with(mime, ext)
          \o << <<"--to">>, <<"plain">>, <<"--wrap=none">>, <<"--markdown-headings=atx">> >>
          \o <<path>>

\* C24: after any sequence of arg, arg_opt and args calls, argv is the
\* program followed by the arguments in the order they were given;
\* arg_opt(None) leaves argv as it is and arg_opt(Some(a)) appends exactly a;
\* so pandoc is invoked with the optional --from hint, then the fixed output
\* options, then the content path.
C24_ArgvInInsertionOrder ==
    /\ [](CliCommand_argv(cli) = <<cli.program>> \o GivenArguments(cliCalls))
    /\ []PandocInvocationInOrder
    /\ [][ (cliCalls' # cliCalls /\ cliCalls'[Len(cliCalls')].op = "arg_opt")
           => IF cliCalls'[Len(cliCalls')].given = None
              THEN CliCommand_argv(cli') = CliCommand_argv(cli)
              ELSE CliCommand_argv(cli')
                   = Append(CliCommand_argv(cli), Unwrap(cliCalls'[Len(cliCalls')].given)) ]_vars

\* echo, arg_opt(None), then arg("hello"): argv is echo hello
C24_Witness ==
    /\ cli.program = <<"echo">>
    /\ Len(cliCalls) = 2
    /\ cliCalls[1] = [op |-> "arg_opt", given |-> None]
    /\ cliCalls[2].op = "arg"
    /\ CliCommand_argv(cli) = << <<"echo">>, <<"hello">> >>

\* where a run ends
TerminalStates == {"Rejected", "Failed", "CopiedOut", "Summarized"}

\* the number of calls in the log that are among the events E
CountAmong(E) == Cardinality({i \in 1..Len(log) : log[i] \in E})

\* each stage has been entered at most once
StagesInvokedAtMostOnce ==
    /\ CountAmong({"fetcher"}) <= 1
    /\ CountAmong({"GET", "headless"}) <= 1
    /\ CountAmong({"read_prefix"}) <= 1
    /\ CountAmong({"ext_lookup"}) <= 1
    /\ CountAmong(BackendEvents) <= 1
    /\ CountAmong({"spawn_pandoc"}) <= 1
    /\ CountAmong({"read_to_string"}) <= 1
    /\ CountAmong({"chat_request"}) <= 1
    /\ CountAmong({"create_parent_dirs"}) <= 1
    /\ CountAmong({"copy", "write_out"}) <= 1

\* C25: every run terminates without retries: given that each call main
\* awaits returns, the run reaches a terminal state, success or failure;
\* fetch, classification, extraction, summarization and output writing are
\* each invoked at most once; and nothing is done after a failure.
C25_TerminatesWithoutRetry ==
    /\ <>(pc \in TerminalStates)
    /\ []StagesInvokedAtMostOnce
    /\ [][ /\ pc \notin TerminalStates
           /\ pc' # pc
           /\ err = None ]_vars

\* a run that failed in extraction, after one fetch, one sniff, one backend
C25_Witness ==
    /\ pc = "Failed"
    /\ Unwrap(err).stage = "extract"
    /\ CountAmong({"fetcher"}) = 1
    /\ CountAmong({"read_prefix"}) = 1
    /\ CountAmong(BackendEvents) = 1

\* C26: for an Http input without a forced kind the raw path is
\* <workdir>/raw, which has no extension: the extension hint is absent and
\* the selected kind is the MIME-table kind of the MIME sniffed from the
\* fetched bytes, whatever extension the URL shows.
C26_HttpClassifiedByMimeOnly ==
    (scheme = Some("Http") /\ args.extractor_kind = None /\ IsSome(extractor_kind))
    => /\ raw_content_path = Some(StagingDir \o <<"/","r","a","w">>)
       /\ maybe_file_ext = None
       /\ maybe_mime = Some(SniffMime(Unwrap(rawFile)))
       /\ extractor_kind = Some(match_kind_by_mime(maybe_mime))
       /\ Logged("mime_lookup")

\* http://a.pdf answered with an HTML page, staged under a WorkDir whose
\* name holds a dot: the kind is HtmlNative
C26_Witness ==
    /\ args.input = Some(<<"h","t","t","p",":","/","/","a",".","p","d","f">>)
    /\ args.workdir = Some(<<"w",".","d">>)
    /\ args.extractor_kind = None
    /\ rawFile = Some(<<"<","a">>)
    /\ maybe_file_ext = None
    /\ extractor_kind = Some("HtmlNative")

\* C27: without a forced kind, a raw file that cannot be opened or read for
\* the sniff ends the run at classification, even when the extension of the
\* path maps to a supported kind: no kind is selected, no lookup is made, the
\* extraction stage creates no WorkDir and no backend is dispatched.
C27_SniffFailureAbortsClassification ==
    /\ [](  (pc = "Failed" /\ Unwrap(err).stage = "classify")
            => /\ args.extractor_kind = None
               /\ Unwrap(err).msg = "failed to read file prefix for MIME sniffing"
               /\ extractor_kind = None
               /\ maybe_file_ext = None
               /\ Logged("read_prefix")
               /\ ~Logged("ext_lookup")
               /\ ~Logged("mime_lookup")
               /\ ~BackendDispatched
               /\ extFile = None
               /\ Count("create_dir_all") = (IF scheme = Some("Http") THEN 1 ELSE 0)
               /\ scheme = Some("File") => ~workdirExists )
    /\ [][ ( /\ pc = "Fetched"
             /\ args.extractor_kind = None
             /\ ReadFile(Unwrap(raw_content_path)) = None )
           => ( /\ pc' = "Failed"
                /\ Unwrap(err').stage = "classify" ) ]_vars

\* a.txt that does not exist: the run fails at classification
C27_Witness ==
    /\ pc = "Failed"
    /\ Unwrap(err).stage = "classify"
    /\ args.input = Some(<<"a",".","t","x","t">>)
    /\ localFile = None
    /\ extractor_kind = None

\* the validation step can end in a rejection from the current state
ValidationCanReject == ENABLED (Validate /\ pc' = "Rejected")

\* C28: a forced kind is validated before the pipeline starts: with forced
\* Pandoc or Whisper and otherwise valid arguments, an environment without
\* the pandoc binary or without a valid model path makes the validation step
\* reject the run, whatever the command; forced PlainText, HtmlNative and
\* PdfNative always pass.
C28_ForcedKindValidatedBeforePipeline ==
    (pc = "Parsed" /\ ExtractSummarizeArgsErrors = {} /\ IsSome(args.extractor_kind))
    => ( ValidationCanReject
         <=> Unwrap(args.extractor_kind) \in {"Pandoc", "Whisper"} )

\* a file exists at the output path of the arguments
OutputExists == IsSome(args.output) /\ IsSome(outFile)

\* C29: a run whose output file already exists, or whose input or output
\* argument is missing, is rejected by validation before scheme detection,
\* fetch, WorkDir creation, extraction and any LLM call; a file present at
\* the output path is never changed by a run.
C29_ExistingOutputNeverOverwritten ==
    /\ [](  pc = "Rejected"
            => /\ log = << >>
               /\ scheme = None
               /\ ~workdirExists
               /\ rawFile = None
               /\ extFile = None
               /\ extractor_kind = None
               /\ summary = None )
    /\ []( pc \notin {"Parsed", "Rejected"}
           => /\ IsSome(args.input)
              /\ IsSome(args.output)
              /\ pc \notin {"CopiedOut", "Summarized"} => outFile = None )
    /\ [][ /\ (pc = "Parsed" /\ (OutputExists \/ args.input = None \/ args.output = None))
             => pc' = "Rejected"
           /\ IsSome(outFile) => outFile' = outFile ]_vars

\* both arguments given, the output file present: rejected, file as it was
C29_Witness ==
    /\ pc = "Rejected"
    /\ IsSome(args.input)
    /\ args.output = Some(OutPath)
    /\ outFile = Some(<<"a">>)
    /\ Unwrap(err).detail = <<"exists">>

\* the argv holds a --from argument
HasFromArgument(argv) ==
    \E i \in 1..Len(argv) : argv[i] # << >> /\ Head(argv[i]) = "--from="

\* C30: with a forced kind both hints handed to the backend are absent,
\* whatever the name and the content of the raw file, so a forced Pandoc run
\* spawns pandoc with no --from argument: the program, the fixed output
\* options and the raw path, nothing else.
C30_ForcedKindGivesNoHints ==
    (IsSome(args.extractor_kind) /\ pc \in AfterClassified)
    => /\ maybe_file_ext = None
       /\ maybe_mime = None
       /\ IsSome(spawned)
          => /\ args.extractor_kind = Some("Pandoc")
             /\ ~HasFromArgument(Unwrap(spawned))
             /\ Unwrap(spawned)
                = << <<"pandoc">>, <<"--to">>, <<"plain">>, <<"--wrap=none">>,
                     <<"--markdown-headings=atx">>, Unwrap(raw_content_path) >>

\* a forced Pandoc on a.doc, an extension the format table maps to doc
C30_Witness ==
    /\ args.extractor_kind = Some("Pandoc")
    /\ args.input = Some(<<"a",".","d","o","c">>)
    /\ IsSome(spawned)
    /\ Logged("spawn_pandoc")
    /\ file_extension_lowercase(Unwrap(raw_content_path)) = Some(<<"d","o","c">>)
    /\ pandoc_input_format_with(None, Some(<<"d","o","c">>)) = Some(<<"--from=", "doc">>)

====
